---- MODULE Spec2Model ----
(***************************************************************************)
(* State-machine model of the RandomUser React component                   *)
(* (src/components/random-user.tsx).                                       *)
(*                                                                         *)
(* The React state cells (user, loading, error, userHistory, favorites,    *)
(* searchTerm) hold the value the next render will show, i.e. the value    *)
(* after every queued setState has been applied in order.  `rendered` is   *)
(* the snapshot of those cells taken by the last render: it is what the    *)
(* closures created by that render (event handlers, effects) read.         *)
(* A Person is a record; its `ref` field stands for the JavaScript object  *)
(* identity and is not part of the JSON serialization.                     *)
(***************************************************************************)
EXTENDS Integers, Sequences, FiniteSets, TLC

\* ---------------------------------------------------------------- bounds
MaxFetches == 2   \* fetchRandomUser invocations in a session (mount included)
MaxStored == 1    \* length of the array stored under "userHistory" before mount
MaxEvents == 2    \* clicks and key strokes in a session

\* ------------------------------------------------------------- constants
NoUser ==
    [ref |-> 0, name |-> <<>>, email |-> <<>>, address |-> <<>>,
     image |-> "", gender |-> ""]
NoError == "null"
FetchErrorMessage == "Failed to fetch user. Please try again."
NoClip == <<>>

\* ------------------------------------------------------------- strings
\* Strings that are searched are sequences of characters.
ToLowerChar(c) ==
    CASE c = "J" -> "j"
      [] c = "O" -> "o"
      [] c = "D" -> "d"
      [] c = "A" -> "a"
      [] c = "L" -> "l"
      [] c = "K" -> "k"
      [] c = "X" -> "x"
      [] OTHER -> c

ToLowerCase(s) == [i \in 1..Len(s) |-> ToLowerChar(s[i])]

\* String.prototype.includes: some position of s starts a copy of t
Includes(s, t) ==
    \E i \in 1..(Len(s) - Len(t) + 1) : SubSeq(s, i, i + Len(t) - 1) = t

\* ---------------------------------------------------- the remote service
\* results[0] records the person-generator service can answer with.
ApiUser1 ==
    [name |-> [first |-> <<"J","o">>, last |-> <<"D">>],
     email |-> <<"j","@","x">>,
     location |-> [street |-> [number |-> "1", name |-> "Elm"],
                   city |-> "Oslo", country |-> "NO"],
     picture |-> [large |-> "img1"],
     gender |-> "female"]

ApiUser2 ==
    [name |-> [first |-> <<"A","l">>, last |-> <<"J">>],
     email |-> <<"K","@","y">>,
     location |-> [street |-> [number |-> "2", name |-> "Oak"],
                   city |-> "Rome", country |-> "IT"],
     picture |-> [large |-> "img2"],
     gender |-> "male"]

ApiUsers == {ApiUser1, ApiUser2}

\* What one fetch can come back with: the network call rejects, the body is
\* not JSON, the body is JSON without results[0], or a body with results[0].
Responses ==
    { [net |-> "reject", json |-> FALSE, results |-> <<>>],
      [net |-> "ok", json |-> FALSE, results |-> <<>>],
      [net |-> "ok", json |-> TRUE, results |-> <<>>] }
    \cup { [net |-> "ok", json |-> TRUE, results |-> <<u>>] : u \in ApiUsers }

\* the try block of fetchRandomUser throws before setUser is reached
Throws(resp) ==
    \/ resp.net = "reject"          \* await fetch(...) rejects
    \/ ~resp.json                   \* await response.json() rejects
    \/ Len(resp.results) = 0        \* data.results[0] is undefined

\* the Person built from data.results[0]; ref is the new object's identity
NewUser(fetchedUser, ref) ==
    [ref |-> ref,
     name |-> fetchedUser.name.first \o <<" ">> \o fetchedUser.name.last,
     email |-> fetchedUser.email,
     address |-> <<fetchedUser.location.street.number, " ",
                   fetchedUser.location.street.name, ", ",
                   fetchedUser.location.city, ", ",
                   fetchedUser.location.country>>,
     image |-> fetchedUser.picture.large,
     gender |-> fetchedUser.gender]

\* ------------------------------------------------------- local storage
\* The value under the key "userHistory": absent (getItem gives null), the
\* empty string, a string that is not JSON, or the JSON text of an array.
\* The JSON text of an array is modelled by the field values of its items.
Fields(u) ==
    [name |-> u.name, email |-> u.email, address |-> u.address,
     image |-> u.image, gender |-> u.gender]

Absent == [kind |-> "absent", items |-> <<>>]
EmptyString == [kind |-> "empty", items |-> <<>>]
Malformed == [kind |-> "malformed", items |-> <<>>]

\* JSON.stringify(userHistory)
Stringify(h) == [kind |-> "array", items |-> [i \in 1..Len(h) |-> Fields(h[i])]]

\* JSON.parse(savedHistory): new objects, numbered from ref
Parse(s, ref) ==
    [i \in 1..Len(s.items) |->
        [ref |-> ref + i - 1,
         name |-> s.items[i].name, email |-> s.items[i].email,
         address |-> s.items[i].address, image |-> s.items[i].image,
         gender |-> s.items[i].gender]]

\* `if (savedHistory)`: null and "" are falsy
Truthy(s) == s.kind \notin {"absent", "empty"}

RECURSIVE SeqsUpTo(_, _)
SeqsUpTo(S, n) ==
    IF n = 0 THEN {<<>>}
    ELSE LET shorter == SeqsUpTo(S, n - 1)
         IN shorter \cup {Append(q, x) : q \in {r \in shorter : Len(r) = n - 1}, x \in S}

\* the persisted form of a person fetched in an earlier session
StoredItems == {Fields(NewUser(ApiUser1, 0))}

InitialStorage ==
    {Absent, EmptyString, Malformed}
    \cup {[kind |-> "array", items |-> q] : q \in SeqsUpTo(StoredItems, MaxStored)}

\* -------------------------------------------------------------- search
SearchTerms == {<<>>, <<"j","O">>}

\* variant: the e-mail address is not searched
Matches_NameOnly(u, term) ==
    Includes(ToLowerCase(u.name), ToLowerCase(term))

\* the filter predicate of filteredHistory
Matches(u, term) ==
    \/ Includes(ToLowerCase(u.name), ToLowerCase(term))
    \/ Includes(ToLowerCase(u.email), ToLowerCase(term))

\* userHistory.filter(...)
FilteredHistory(history, term) == SelectSeq(history, LAMBDA u : Matches(u, term))

Range(q) == {q[i] : i \in 1..Len(q)}

\* ----------------------------------------------------------- favorites
\* variant: membership by field values instead of identity
FavIncludes_ByValue(favs, p) == \E i \in 1..Len(favs) : Fields(favs[i]) = Fields(p)

\* favorites.includes(userToFavorite): strict (reference) equality
FavIncludes(favs, p) == \E i \in 1..Len(favs) : favs[i].ref = p.ref

\* the value toggleFavorite hands to setFavorites; favs is the `favorites`
\* of the render that created the handler
ToggledFavorites(favs, p) ==
    IF FavIncludes(favs, p)
    THEN SelectSeq(favs, LAMBDA fav : fav.ref # p.ref)
    ELSE Append(favs, p)

\* ------------------------------------------------------------ clipboard
\* variant: the text without the address line
UserInfo_NoAddress(u) == <<"Name: ", u.name, "\nEmail: ", u.email>>

\* the text copyUserInfo writes
UserInfo(u) == <<"Name: ", u.name, "\nEmail: ", u.email, "\nAddress: ", u.address>>

\* ---------------------------------------------------------------- state
VARIABLES
    phase,        \* "unmounted", "mounted", or "crashed" (an effect threw)
    user,         \* useState<User | null>
    loading,      \* useState<boolean>
    error,        \* useState<string | null>
    userHistory,  \* useState<User[]>
    favorites,    \* useState<User[]>
    searchTerm,   \* useState<string>
    rendered,     \* the state cells as the last render read them
    savePending,  \* userHistory was set since the last render
    dirty,        \* a state cell was set since the last render
    storage,      \* localStorage, key "userHistory"
    clipboard,    \* navigator.clipboard
    alerts,       \* alert dialogs shown so far
    inflight,     \* fetchRandomUser invocations suspended at an await
    nextRef,      \* identity of the next object created
    started,      \* fetchRandomUser invocations so far
    events,       \* clicks and key strokes so far, the fetch button apart
    succeeded,    \* fetchRandomUser invocations that reached setUserHistory
    loadedLen,    \* length of the history loaded at mount
    savedAtMount, \* the items of the array the load effect read, if it read one
    cleared,      \* clearHistory was invoked in this session
    overlapped,   \* fetchRandomUser was invoked while another was in flight
    pre,          \* the latest fetchRandomUser invocation while nothing else happens
    tw,           \* the running pair of toggleFavorite calls on one person
    sinceClear    \* progress of the write that follows the latest clearHistory

state == <<user, loading, error, userHistory, favorites, searchTerm>>
react == <<rendered, savePending, dirty>>
world == <<storage, clipboard, alerts, inflight, nextRef>>
counters == <<started, events, succeeded, loadedLen, savedAtMount, cleared,
              overlapped>>
observers == <<pre, tw, sinceClear>>
vars == <<phase, state, react, world, counters, observers>>

\* the state cells, as a handler finds them
Cells ==
    [user |-> user, loading |-> loading, error |-> error,
     userHistory |-> userHistory, favorites |-> favorites,
     searchTerm |-> searchTerm]

\* the queued setState calls of a handler applied
SetCells(c) ==
    /\ user' = c.user
    /\ loading' = c.loading
    /\ error' = c.error
    /\ userHistory' = c.userHistory
    /\ favorites' = c.favorites
    /\ searchTerm' = c.searchTerm

\* what the closures of a render read (loading and error are read by the
\* JSX alone)
Snapshot ==
    [user |-> user, userHistory |-> userHistory, favorites |-> favorites,
     searchTerm |-> searchTerm]

\* ------------------------------------------------------------- handlers
\* fetchRandomUser before the try block
FetchBegin(c) == [c EXCEPT !.loading = TRUE, !.error = NoError]

\* variant: the person shown is replaced only when there was none
FetchTry_KeepsUser(c, fetchedUser, ref) ==
    [c EXCEPT !.user = IF @ = NoUser THEN NewUser(fetchedUser, ref) ELSE @,
              !.userHistory = Append(@, NewUser(fetchedUser, ref))]

\* variant: the new person is put in front of the history
FetchTry_Prepends(c, fetchedUser, ref) ==
    [c EXCEPT !.user = NewUser(fetchedUser, ref),
              !.userHistory = <<NewUser(fetchedUser, ref)>> \o @]

\* variant: the history is appended to the array the last render saw
FetchTry_Stale(c, fetchedUser, ref) ==
    [c EXCEPT !.user = NewUser(fetchedUser, ref),
              !.userHistory = Append(rendered.userHistory, NewUser(fetchedUser, ref))]

\* the try block after the awaits: setUser, then the functional setUserHistory
FetchTry(c, fetchedUser, ref) ==
    [c EXCEPT !.user = NewUser(fetchedUser, ref),
              !.userHistory = Append(@, NewUser(fetchedUser, ref))]

\* variant: the failure is logged and no message is set
FetchCatch_Silent(c) == c

\* variant: the failure also resets the current person
FetchCatch_DropsUser(c) == [c EXCEPT !.error = FetchErrorMessage, !.user = NoUser]

\* the catch block
FetchCatch(c) == [c EXCEPT !.error = FetchErrorMessage]

\* variant: the finally block leaves the flag alone
FetchFinally_Keeps(c) == c

\* the finally block
FetchFinally(c) == [c EXCEPT !.loading = FALSE]

\* variant: the stored history is read and not applied
LoadHistory_Dropped(c, saved, ref) == c

\* the load effect, given a stored value that parses
LoadHistory(c, saved, ref) ==
    IF Truthy(saved) THEN [c EXCEPT !.userHistory = Parse(saved, ref)] ELSE c

\* variant: membership is tested on the closure's list, the change is made
\* to the current one
Toggled_StaleTest(c, favs, p) ==
    [c EXCEPT !.favorites = IF FavIncludes(favs, p)
                            THEN SelectSeq(@, LAMBDA fav : fav.ref # p.ref)
                            ELSE Append(@, p)]

\* variant: the functional form, setFavorites(prev => ...)
Toggled_Functional(c, favs, p) == [c EXCEPT !.favorites = ToggledFavorites(@, p)]

\* toggleFavorite, favs being the favorites its closure holds
Toggled(c, favs, p) == [c EXCEPT !.favorites = ToggledFavorites(favs, p)]

\* variant: the current person is kept in the history
Cleared_KeepsCurrent(c) ==
    [c EXCEPT !.userHistory = IF c.user = NoUser THEN <<>> ELSE <<c.user>>]

\* variant: the favorites are reset with the history
Cleared_All(c) == [c EXCEPT !.userHistory = <<>>, !.favorites = <<>>]

\* clearHistory
Cleared(c) == [c EXCEPT !.userHistory = <<>>]

\* variant: typing a term also dismisses the error message
Searched_DismissesError(c, term) == [c EXCEPT !.searchTerm = term, !.error = NoError]

\* handleSearch
Searched(c, term) == [c EXCEPT !.searchTerm = term]

\* variant: the effect writes the history of the render before
Saved_Previous(h) == Stringify(rendered.userHistory)

\* the save effect of a render that read history h
Saved(h) == Stringify(h)

\* --------------------------------------------------------- observers
NoPre ==
    [stage |-> "none", user |-> NoUser, userHistory |-> <<>>,
     favorites |-> <<>>, storage |-> Absent]

NoTw ==
    [n |-> 0, p |-> NoUser, before |-> <<>>, after |-> <<>>,
     fresh |-> FALSE, rerendered |-> FALSE]

\* A pair of toggleFavorite calls is in succession when only renders
\* separate them; a fetch invocation is undisturbed until any other step.
OtherStep ==
    /\ pre' = NoPre
    /\ tw' = NoTw

Init ==
    /\ phase = "unmounted"
    /\ user = NoUser
    /\ loading = FALSE
    /\ error = NoError
    /\ userHistory = <<>>
    /\ favorites = <<>>
    /\ searchTerm = <<>>
    /\ rendered = Snapshot
    /\ savePending = FALSE
    /\ dirty = FALSE
    /\ storage \in InitialStorage
    /\ clipboard = NoClip
    /\ alerts = 0
    /\ inflight = 0
    /\ nextRef = 1
    /\ started = 0
    /\ events = 0
    /\ succeeded = 0
    /\ loadedLen = 0
    /\ savedAtMount = <<>>
    /\ cleared = FALSE
    /\ overlapped = FALSE
    /\ pre = NoPre
    /\ tw = NoTw
    /\ sinceClear = "none"

\* ------------------------------------------------------------- actions
\* First render and its three effects, in source order: load the history,
\* save the (still empty) rendered history, start the first fetch.
MountOk ==
    /\ phase = "unmounted"
    /\ storage.kind # "malformed"
    /\ phase' = "mounted"
    /\ rendered' = Snapshot
    /\ dirty' = TRUE
    /\ SetCells(FetchBegin(LoadHistory(Cells, storage, nextRef)))
    /\ savePending' = Truthy(storage)
    /\ nextRef' = IF Truthy(storage) THEN nextRef + Len(storage.items) ELSE nextRef
    /\ loadedLen' = IF Truthy(storage) THEN Len(storage.items) ELSE 0
    /\ savedAtMount' = IF Truthy(storage) THEN storage.items ELSE <<>>
    /\ storage' = Saved(rendered.userHistory)
    /\ inflight' = inflight + 1
    /\ started' = started + 1
    /\ pre' = [stage |-> "started", user |-> user', userHistory |-> userHistory',
               favorites |-> favorites', storage |-> storage']
    /\ UNCHANGED <<clipboard, alerts, events, succeeded, cleared, overlapped, tw,
                   sinceClear>>

\* JSON.parse throws inside the load effect: the error is uncaught and React
\* unmounts the tree.  Whether the effects after it still run depends on the
\* React version, so the save effect may or may not have written "[]".
MountCrash ==
    /\ phase = "unmounted"
    /\ storage.kind = "malformed"
    /\ phase' = "crashed"
    /\ storage' \in {storage, Saved(rendered.userHistory)}
    /\ UNCHANGED <<state, react, clipboard, alerts, inflight, nextRef, counters,
                   observers>>

\* a click on "Fetch New User": fetchRandomUser up to its first await
FetchStart ==
    /\ phase = "mounted"
    /\ started < MaxFetches
    /\ SetCells(FetchBegin(Cells))
    /\ dirty' = TRUE
    /\ inflight' = inflight + 1
    /\ started' = started + 1
    /\ overlapped' = (overlapped \/ inflight > 0)
    /\ pre' = [stage |-> "started", user |-> user, userHistory |-> userHistory,
               favorites |-> favorites, storage |-> storage]
    /\ tw' = NoTw
    /\ UNCHANGED <<phase, rendered, savePending, storage, clipboard, alerts, nextRef,
                   events, succeeded, loadedLen, savedAtMount, cleared, sinceClear>>

\* the rest of fetchRandomUser, once the awaited response is there
FetchComplete(resp) ==
    /\ phase = "mounted"
    /\ inflight > 0
    /\ inflight' = inflight - 1
    /\ dirty' = TRUE
    /\ IF Throws(resp)
       THEN /\ SetCells(FetchFinally(FetchCatch(Cells)))
            /\ pre' = IF pre.stage = "started"
                      THEN [pre EXCEPT !.stage = "failed"] ELSE NoPre
            /\ UNCHANGED <<savePending, nextRef, succeeded, sinceClear>>
       ELSE /\ SetCells(FetchFinally(FetchTry(Cells, resp.results[1], nextRef)))
            /\ savePending' = TRUE
            /\ nextRef' = nextRef + 1
            /\ succeeded' = succeeded + 1
            /\ sinceClear' = "none"
            /\ pre' = NoPre
    /\ tw' = NoTw
    /\ UNCHANGED <<phase, rendered, storage, clipboard, alerts, started, events,
                   loadedLen, savedAtMount, cleared, overlapped>>

\* The favorite buttons of the last render: button 0 is on the card of the
\* current person, button i > 0 on the i-th line of the filtered history.
MaxButtons == MaxStored + MaxFetches

HasButton(i) ==
    IF i = 0 THEN rendered.user # NoUser
    ELSE i <= Len(FilteredHistory(rendered.userHistory, rendered.searchTerm))

ButtonUser(i) ==
    IF i = 0 THEN rendered.user
    ELSE FilteredHistory(rendered.userHistory, rendered.searchTerm)[i]

\* a click on favorite button i: toggleFavorite(user) or toggleFavorite(u)
ToggleFavorite(i) ==
    /\ phase = "mounted"
    /\ events < MaxEvents
    /\ HasButton(i)
    /\ SetCells(Toggled(Cells, rendered.favorites, ButtonUser(i)))
    /\ tw' = IF tw.n = 1 /\ tw.p = ButtonUser(i)
             THEN [tw EXCEPT !.n = 2]
             ELSE [n |-> 1, p |-> ButtonUser(i), before |-> favorites,
                   after |-> favorites',
                   fresh |-> (rendered.favorites = favorites),
                   rerendered |-> FALSE]
    /\ events' = events + 1
    /\ dirty' = TRUE
    /\ pre' = NoPre
    /\ UNCHANGED <<phase, rendered, savePending, world, started, succeeded,
                   loadedLen, savedAtMount, cleared, overlapped, sinceClear>>

\* a click on "Copy Info": copyUserInfo, user being the one its closure holds
CopyUserInfo ==
    /\ phase = "mounted"
    /\ events < MaxEvents
    /\ events' = events + 1
    /\ IF rendered.user # NoUser
       THEN /\ clipboard' = UserInfo(rendered.user)
            /\ alerts' = alerts + 1
       ELSE UNCHANGED <<clipboard, alerts>>
    /\ OtherStep
    /\ UNCHANGED <<phase, state, react, storage, inflight, nextRef, started,
                   succeeded, loadedLen, savedAtMount, cleared, overlapped, sinceClear>>

\* a click on "Clear History"
ClearHistory ==
    /\ phase = "mounted"
    /\ events < MaxEvents
    /\ events' = events + 1
    /\ SetCells(Cleared(Cells))
    /\ dirty' = TRUE
    /\ savePending' = TRUE
    /\ cleared' = TRUE
    /\ sinceClear' = "cleared"
    /\ OtherStep
    /\ UNCHANGED <<phase, rendered, world, started, succeeded, loadedLen, savedAtMount,
                   overlapped>>

\* a key stroke in the search input
HandleSearch(term) ==
    /\ phase = "mounted"
    /\ events < MaxEvents
    /\ events' = events + 1
    /\ SetCells(Searched(Cells, term))
    /\ dirty' = TRUE
    /\ OtherStep
    /\ UNCHANGED <<phase, rendered, savePending, world, started, succeeded,
                   loadedLen, savedAtMount, cleared, overlapped, sinceClear>>

\* A re-render and the effect it schedules: the save effect runs when
\* userHistory is not the array the previous render saw.
Render ==
    /\ phase = "mounted"
    /\ dirty
    /\ dirty' = FALSE
    /\ rendered' = Snapshot
    /\ savePending' = FALSE
    /\ IF savePending
       THEN storage' = Saved(userHistory)
       ELSE UNCHANGED storage
    /\ sinceClear' = IF sinceClear = "cleared" THEN "saved" ELSE sinceClear
    /\ pre' = NoPre
    /\ tw' = IF tw.n = 1 THEN [tw EXCEPT !.rerendered = TRUE] ELSE NoTw
    /\ UNCHANGED <<phase, state, clipboard, alerts, inflight, nextRef, counters>>

Next ==
    \/ MountOk
    \/ MountCrash
    \/ FetchStart
    \/ \E resp \in Responses : FetchComplete(resp)
    \/ \E i \in 0..MaxButtons : ToggleFavorite(i)
    \/ CopyUserInfo
    \/ ClearHistory
    \/ \E term \in SearchTerms : HandleSearch(term)
    \/ Render

Spec == Init /\ [][Next]_vars

\* React always runs a render it has scheduled; a response may never come.
FairSpec == Spec /\ WF_vars(Render)

\* Every request is answered or fails: an invocation suspended at an await
\* is resumed.
FairNetSpec == Spec /\ WF_vars(\E resp \in Responses : FetchComplete(resp))

\* A session in which people were fetched and some of them made favorites:
\* the history holds one loaded and two fetched people, and favorites is any
\* list toggleFavorite can have built from them.
RECURSIVE NoRepeats(_)
NoRepeats(q) ==
    IF Len(q) < 2 THEN TRUE
    ELSE /\ \A i \in 2..Len(q) : q[i] # q[1]
         /\ NoRepeats(Tail(q))

\* the people of n successful fetches, numbered from ref
FetchedFrom(q, ref) == [i \in 1..Len(q) |-> NewUser(q[i], ref + i - 1)]

\* The state once a session has loaded `saved`, fetched the people of q one
\* after the other, rendered, and made the people of favs favorites.
Session(saved, q, favs) ==
    /\ phase = "mounted"
    /\ userHistory = Parse(saved, 1) \o FetchedFrom(q, Len(saved.items) + 1)
    /\ user = userHistory[Len(userHistory)]
    /\ loading = FALSE
    /\ error = NoError
    /\ favorites = favs
    /\ searchTerm = <<>>
    /\ rendered = Snapshot
    /\ savePending = FALSE
    /\ dirty = FALSE
    /\ storage = Saved(userHistory)
    /\ clipboard = NoClip
    /\ alerts = 0
    /\ inflight = 0
    /\ nextRef = Len(userHistory) + 1
    /\ started = Len(q)
    /\ events = 0
    /\ succeeded = Len(q)
    /\ loadedLen = Len(saved.items)
    /\ savedAtMount = saved.items
    /\ cleared = FALSE
    /\ overlapped = FALSE
    /\ pre = NoPre
    /\ tw = NoTw
    /\ sinceClear = "none"

\* Favorites: one loaded and two fetched people, of whom the first two have
\* equal field values, and any list toggleFavorite can have built from them.
SessionSaved == Stringify(<<NewUser(ApiUser1, 0)>>)
SessionFetched == <<ApiUser1, ApiUser2>>
SessionPeople == Parse(SessionSaved, 1) \o FetchedFrom(SessionFetched, 2)

InitFavorites ==
    \E favs \in {q \in SeqsUpTo(Range(SessionPeople), Len(SessionPeople)) : NoRepeats(q)} :
        Session(SessionSaved, SessionFetched, favs)

NextFavorites ==
    \/ \E i \in 0..MaxButtons : ToggleFavorite(i)
    \/ Render

SpecFavorites == InitFavorites /\ [][NextFavorites]_vars

\* Search: every history a session can have built, and the search input.
InitSearch ==
    \E saved \in {x \in InitialStorage : x.kind = "array"},
       q \in SeqsUpTo(ApiUsers, MaxFetches) \ {<<>>} :
        Session(saved, q, <<>>)

NextSearch ==
    \/ \E term \in SearchTerms : HandleSearch(term)
    \/ Render

SpecSearch == InitSearch /\ [][NextSearch]_vars

\* ===================================================================
\* Properties
\* ===================================================================
Mounted == phase = "mounted"

Settled == Mounted /\ inflight = 0 /\ started >= 1

\* C1 (as stated): once a fetch has completed and none is in flight, exactly
\* one of `user` and `error` is non-null, never both.
C1_ExactlyOne ==
    Settled => ((user # NoUser) # (error # NoError))

\* C1 (amended): once a fetch has completed and none is in flight, at least
\* one of `user` and `error` is non-null, and an error is the fixed message.
C1_AtLeastOne ==
    Settled =>
        /\ user # NoUser \/ error # NoError
        /\ error \in {NoError, "Failed to fetch user. Please try again."}

\* C1 witness: a settled state showing a person and an error at once
C1_BothShown == Settled /\ user # NoUser /\ error # NoError

\* C2: without clearHistory, the history is the loaded list followed by one
\* entry per successful fetch, none lost and none twice, whatever the
\* interleaving.
C2_HistoryLength ==
    (Mounted /\ ~cleared) =>
        /\ Len(userHistory) = loadedLen + succeeded
        /\ \A i \in 1..Len(userHistory) : userHistory[i].ref = i

\* C2 witness: two overlapping fetches succeeded on top of a loaded entry
C2_OverlappingSucceeded ==
    /\ Mounted /\ ~cleared /\ overlapped
    /\ loadedLen = 1 /\ succeeded = 2 /\ Len(userHistory) = 3

\* the array stored under "userHistory" is h, item by item and in order
StoredIs(h) ==
    /\ storage.kind = "array"
    /\ Len(storage.items) = Len(h)
    /\ \A i \in 1..Len(h) :
        /\ storage.items[i].name = h[i].name
        /\ storage.items[i].email = h[i].email
        /\ storage.items[i].address = h[i].address
        /\ storage.items[i].image = h[i].image
        /\ storage.items[i].gender = h[i].gender

\* C3: after every change of the history the save effect eventually writes
\* the whole current history, and whenever no save is pending the stored
\* array is the history, element for element.
C3_Persisted ==
    /\ [](Mounted /\ ~savePending => StoredIs(userHistory))
    /\ ((Mounted /\ savePending) ~> (~savePending /\ StoredIs(userHistory)))

\* C3 witness: a history of several entries has been written through
C3_WrittenThrough ==
    Mounted /\ ~savePending /\ Len(userHistory) >= 2 /\ StoredIs(userHistory)

\* C4: clearHistory empties the history and, once the save effect has run
\* with no fetch completing in between, storage holds the empty array.
C4_ClearEmptiesStorage ==
    /\ sinceClear = "cleared" => userHistory = <<>>
    /\ sinceClear = "saved" =>
        /\ userHistory = <<>>
        /\ storage.kind = "array"
        /\ storage.items = <<>>

\* C4 witness: a non-empty history was cleared and the write has happened
C4_ClearedAndSaved ==
    sinceClear = "saved" /\ loadedLen + succeeded >= 1 /\ storage.items = <<>>

RECURSIVE WithoutRef(_, _)
WithoutRef(q, ref) ==
    IF q = <<>> THEN <<>>
    ELSE IF q[1].ref = ref THEN WithoutRef(Tail(q), ref)
    ELSE <<q[1]>> \o WithoutRef(Tail(q), ref)

HasRef(q, ref) == ref \in {q[i].ref : i \in 1..Len(q)}

\* C5 (as stated): two toggleFavorite(p) calls in succession leave favorites
\* the ordered sequence it was, with or without a render in between.
C5_TwiceRestores ==
    tw.n = 2 => favorites = tw.before

\* C5 (amended): with a render before each call the pair keeps the members:
\* favorites is as before when p was absent or last, else p has moved to the
\* end; without a render in between the second call repeats the first.
C5_TwiceKeepsMembers ==
    tw.n = 2 =>
        /\ (tw.fresh /\ tw.rerendered) =>
            favorites = IF HasRef(tw.before, tw.p.ref)
                        THEN WithoutRef(tw.before, tw.p.ref) \o <<tw.p>>
                        ELSE tw.before
        /\ ~tw.rerendered => favorites = tw.after

\* C5 witness: a rendered pair on a favorite that was not the last one
C5_PairOnInnerFavorite ==
    /\ tw.n = 2 /\ tw.fresh /\ tw.rerendered
    /\ Len(tw.before) >= 2
    /\ HasRef(SubSeq(tw.before, 1, Len(tw.before) - 1), tw.p.ref)

\* C6: toggleFavorite(p) removes p when the favorites its render shows hold
\* that very object and appends p otherwise; an equal-valued other object
\* is neither added nor removed.
C6_ToggleByReference ==
    [][\A i \in 0..MaxButtons :
        ToggleFavorite(i) =>
            LET p == ButtonUser(i)
                F == rendered.favorites
            IN /\ favorites' = IF HasRef(F, p.ref)
                               THEN WithoutRef(F, p.ref)
                               ELSE F \o <<p>>
               /\ \A j \in 1..Len(userHistory) :
                    userHistory[j].ref # p.ref =>
                        (HasRef(favorites', userHistory[j].ref)
                            <=> HasRef(F, userHistory[j].ref))]_vars

\* C6 witness: after a toggle, favorites holds a person while an
\* equal-valued person of the history is not a favorite
C6_EqualValuedTwin ==
    /\ tw.n = 1
    /\ HasRef(favorites, tw.p.ref)
    /\ \E i \in 1..Len(favorites), j \in 1..Len(userHistory) :
        /\ Fields(favorites[i]) = Fields(userHistory[j])
        /\ favorites[i].ref # userHistory[j].ref
        /\ ~HasRef(favorites, userHistory[j].ref)

\* C7: a failing fetch ends with loading back from true to false, the fixed
\* message in `error`, and user, history, favorites and storage as they were
\* when the call started.
C7_FailureKeepsState ==
    /\ pre.stage = "started" => loading
    /\ pre.stage = "failed" =>
        /\ ~loading
        /\ error = "Failed to fetch user. Please try again."
        /\ error # ""
        /\ user = pre.user
        /\ userHistory = pre.userHistory
        /\ favorites = pre.favorites
        /\ storage = pre.storage

\* C7 witness: a fetch failed while a person was shown and history was kept
C7_FailedAfterSuccess ==
    pre.stage = "failed" /\ pre.user # NoUser /\ pre.userHistory # <<>>

\* letters that differ in case only
CasePairs ==
    {<<"J","j">>, <<"O","o">>, <<"D","d">>, <<"A","a">>, <<"L","l">>, <<"K","k">>,
     <<"X","x">>}

SameLetter(a, b) == a = b \/ <<a, b>> \in CasePairs \/ <<b, a>> \in CasePairs

\* t occurs in s, letter case ignored
ContainsIgnoringCase(s, t) ==
    \E off \in 0..(Len(s) - Len(t)) :
        \A j \in 1..Len(t) : SameLetter(s[off + j], t[j])

CheckTerms ==
    SearchTerms \cup {<<"K">>, <<"k","@">>, <<"z">>, <<" ","d">>, <<"J","O"," ">>, <<"l"," ","J">>}

\* C8: the filtered list is the order-preserving subsequence of the history
\* whose name or e-mail contains the term, case ignored; the empty term
\* keeps everything and a term found nowhere gives the empty list.
C8_FilterIsSubsequence ==
    \A t \in CheckTerms :
        LET f == FilteredHistory(userHistory, t)
            hit == {i \in 1..Len(userHistory) :
                        \/ ContainsIgnoringCase(userHistory[i].name, t)
                        \/ ContainsIgnoringCase(userHistory[i].email, t)}
            nth(k) == CHOOSE i \in hit : Cardinality({j \in hit : j < i}) = k - 1
        IN /\ Len(f) = Cardinality(hit)
           /\ \A k \in 1..Len(f) : f[k] = userHistory[nth(k)]
           /\ t = <<>> => f = userHistory
           /\ hit = {} => f = <<>>

\* C8 witness: a term that keeps some entries of the history and drops others
C8_ProperSelection ==
    /\ Mounted /\ searchTerm # <<>>
    /\ Len(FilteredHistory(userHistory, searchTerm)) \in 1..(Len(userHistory) - 1)

\* C9 (as stated): no failure leaves the widget crashed; it stays mounted
\* and interactive.
C9_NeverCrashed == phase # "crashed"

\* C10: clearHistory leaves favorites, user, loading, error and searchTerm
\* as they are.
C10_ClearFrame ==
    [][ClearHistory =>
        /\ favorites' = favorites
        /\ user' = user
        /\ loading' = loading
        /\ error' = error
        /\ searchTerm' = searchTerm]_vars

\* C10 witness: the history was just cleared while favorites are kept
C10_FavoritesOutliveHistory ==
    sinceClear = "cleared" /\ userHistory = <<>> /\ favorites # <<>> /\ user # NoUser

\* C11: copyUserInfo called with no current person writes nothing to the
\* clipboard and shows no alert; called with a current person it puts that
\* person's name, e-mail and address on the clipboard; both ways user,
\* loading, error, userHistory, favorites, searchTerm and storage stay as
\* they were.  The current person is the one the handler's closure holds.
C11_CopyFrame ==
    [][CopyUserInfo =>
        /\ rendered.user = NoUser => clipboard' = clipboard /\ alerts' = alerts
        /\ rendered.user # NoUser =>
              clipboard' = <<"Name: ", rendered.user.name,
                             "\nEmail: ", rendered.user.email,
                             "\nAddress: ", rendered.user.address>>
        /\ user' = user
        /\ loading' = loading
        /\ error' = error
        /\ userHistory' = userHistory
        /\ favorites' = favorites
        /\ searchTerm' = searchTerm
        /\ storage' = storage]_vars

\* C11 witness: the shown person was copied and the copy acknowledged
C11_Copied ==
    /\ rendered.user # NoUser
    /\ alerts = 1
    /\ clipboard = <<"Name: ", <<"J","o"," ","D">>,
                      "\nEmail: ", <<"j","@","x">>,
                      "\nAddress: ", <<"1", " ", "Elm", ", ", "Oslo", ", ", "NO">>>>

\* the field values of the entries of h, which is what storage keeps of them
Values(h) == [i \in 1..Len(h) |-> Fields(h[i])]

\* h holds the people saved before mount, followed by n more
LoadedThenFetched(h, n) ==
    /\ Len(h) = Len(savedAtMount) + n
    /\ SubSeq(Values(h), 1, Len(savedAtMount)) = savedAtMount

\* C12 (as stated): once mounted, userHistory equals the array S that was
\* stored at mount in every state before a fetch completes, and equals S
\* followed by the fetched person once the first successful fetch has
\* completed with no clearHistory; no fetched entry is lost to the load.
C12_LoadedUntilFetched ==
    Mounted =>
        /\ succeeded = 0 => Values(userHistory) = savedAtMount
        /\ succeeded = 1 /\ ~cleared =>
              /\ LoadedThenFetched(userHistory, 1)
              /\ userHistory[Len(userHistory)] = user
        /\ ~cleared => LoadedThenFetched(userHistory, succeeded)

\* C12 (amended): the same, in every state before a fetch completes and
\* before clearHistory is invoked.
C12_LoadedFirst ==
    Mounted /\ ~cleared =>
        /\ succeeded = 0 => Values(userHistory) = savedAtMount
        /\ succeeded = 1 =>
              /\ LoadedThenFetched(userHistory, 1)
              /\ userHistory[Len(userHistory)] = user
        /\ LoadedThenFetched(userHistory, succeeded)

\* C12 witness: the first fetched person stands behind the loaded history
C12_FetchedBehindLoaded ==
    /\ Mounted /\ ~cleared /\ succeeded = 1
    /\ savedAtMount # <<>>
    /\ Len(userHistory) = Len(savedAtMount) + 1
    /\ user # NoUser

\* a fetchRandomUser invocation completes through its try block
FetchSucceeds == \E resp \in Responses : ~Throws(resp) /\ FetchComplete(resp)

\* C13: once the history is loaded, a step changes userHistory in two ways
\* only: a successful fetch completion appends one entry behind the
\* existing ones, which keep their places, and clearHistory empties it; a
\* failed fetch, toggleFavorite, a search, a copy, the start of a fetch
\* and a render with its save effect leave it as it is.
C13_AppendOrClear ==
    [][phase = "mounted" =>
        /\ FetchSucceeds =>
              /\ Len(userHistory') = Len(userHistory) + 1
              /\ SubSeq(userHistory', 1, Len(userHistory)) = userHistory
              /\ \A i \in 1..Len(userHistory) :
                    userHistory[i].ref # userHistory'[Len(userHistory')].ref
        /\ ClearHistory => userHistory' = <<>>
        /\ ~FetchSucceeds /\ ~ClearHistory => userHistory' = userHistory]_vars

\* C13 witness: the history was cleared and then appended to
C13_AppendedAfterClear ==
    cleared /\ Len(userHistory) = 1 /\ userHistory[1] = user /\ loadedLen + succeeded > 1

\* C14: an invocation of fetchRandomUser sets loading and clears error when
\* it starts; given that every request is answered or fails, it completes,
\* either through the try block (a new user, appended to the history) or
\* through the catch block (the error message, user and history kept),
\* never both, and sets loading to false; with no invocation in flight
\* loading is false; a completion starts no further invocation.
C14_FetchLifecycle ==
    /\ [][/\ started' = started + 1 => loading' /\ error' = NoError
          /\ inflight' < inflight =>
                LET success == /\ succeeded' = succeeded + 1
                               /\ user' # user
                               /\ userHistory' = Append(userHistory, user')
                               /\ error' = error
                    failure == /\ succeeded' = succeeded
                               /\ error' = FetchErrorMessage
                               /\ user' = user
                               /\ userHistory' = userHistory
                IN /\ success \/ failure
                   /\ ~(success /\ failure)
                   /\ ~loading'
                   /\ inflight' = inflight - 1
                   /\ started' = started]_vars
    /\ [](inflight = 0 => ~loading)
    /\ <>[](inflight = 0) \/ []<><<inflight' = inflight - 1>>_vars

\* C14 witness: two invocations have completed, one each way, and the
\* widget is idle again
C14_IdleAfterBoth ==
    /\ Mounted /\ started = 2 /\ inflight = 0 /\ ~loading
    /\ succeeded = 1 /\ error = FetchErrorMessage

\* what a completing invocation leaves in user, error and loading, the
\* cells being c when it resumes
Outcome(c, resp) ==
    LET d == IF Throws(resp)
             THEN FetchFinally(FetchCatch(c))
             ELSE FetchFinally(FetchTry(c, resp.results[1], nextRef))
    IN <<d.user, d.error, d.loading>>

\* C15: toggleFavorite, a search, clearHistory and copyUserInfo leave
\* loading, error and user as they are, and the invocations in flight; they
\* run while a fetch is in flight as well as when none is; and a fetch
\* that completes after one of them ends the same way, with the same
\* person, as it would have without it.  The steps of these four handlers
\* are the ones that count in events.
C15_HandlersOutsideFetch ==
    [][events' = events + 1 =>
        /\ loading' = loading
        /\ error' = error
        /\ user' = user
        /\ inflight' = inflight
        /\ \A resp \in Responses : Outcome(Cells, resp)' = Outcome(Cells, resp)]_vars

\* C15 witness: a person was made a favorite and the history searched
\* while the first fetch was in flight
C15_BusyWhileLoading ==
    /\ Mounted /\ started = 1 /\ inflight = 1 /\ loading
    /\ favorites # <<>> /\ searchTerm # <<>>

\* C16 (as stated): loading is true in every state in which an invocation
\* of fetchRandomUser is still in flight, overlapping invocations included.
C16_LoadingWhileInFlight == inflight > 0 => loading

\* q begins with p
IsPrefix(p, q) == Len(p) <= Len(q) /\ SubSeq(q, 1, Len(p)) = p

\* C17 (as stated): as long as clearHistory has not been invoked, the array
\* in storage begins with the array that was there when the component
\* mounted, also between the mount effects and the first re-render.
C17_StoredKeepsSaved == ~cleared => IsPrefix(savedAtMount, storage.items)

\* C18: right after a successful fetch completion user is the very object
\* at the end of userHistory, a new one; and as long as clearHistory has
\* not run since the latest successful completion, overlapping fetches or
\* not, user stays that object, the person of the fetch that succeeded
\* last.
C18_UserIsLastOfHistory ==
    [][/\ succeeded' = succeeded + 1 =>
             /\ userHistory' # <<>>
             /\ user' = userHistory'[Len(userHistory')]
             /\ user'.ref = nextRef
             /\ \A i \in 1..Len(userHistory) : userHistory[i].ref # user'.ref
       /\ succeeded' >= 1 /\ sinceClear' = "none" =>
             /\ userHistory' # <<>>
             /\ user' = userHistory'[Len(userHistory')]]_vars

\* C18 witness: two overlapping fetches have both succeeded, and the person
\* shown is the one appended last
C18_LastOfOverlapping ==
    /\ overlapped /\ inflight = 0 /\ succeeded = 2 /\ sinceClear = "none"
    /\ Len(userHistory) >= 2
    /\ user = userHistory[Len(userHistory)]
    /\ user.ref = nextRef - 1

\* C19: favorites never holds the same object twice, whatever toggleFavorite
\* calls were made and also when several of them were made from one render;
\* it is empty until the first handler runs, whatever storage held; and
\* what is in storage is the history of the latest render, nothing of
\* favorites.
C19_FavoritesDistinct ==
    /\ \A i, j \in 1..Len(favorites) :
          i # j => favorites[i].ref # favorites[j].ref
    /\ events = 0 => favorites = <<>>
    /\ Mounted => storage = Stringify(rendered.userHistory)

\* C19 witness: toggleFavorite ran twice on one person from one render,
\* with a history that came from storage
C19_TwiceFromOneRender ==
    /\ tw.n = 2 /\ ~tw.rerendered
    /\ favorites # <<>>
    /\ savedAtMount # <<>>
====
